---- MODULE Spec2Model ----
(***************************************************************************)
(* Model of the login security detector (SecurityDetector.ts) and of the   *)
(* fingerprint gate of session creation (Browser.ts).                      *)
(*                                                                         *)
(* The bot object carries the fleet-wide flags (compromisedModeActive,     *)
(* compromisedReason, the global standby record and currentAccountEmail).  *)
(* Every worker is one caller of the detector on its own page; JavaScript  *)
(* runs a call atomically between two awaits, so every action below is the *)
(* code between two consecutive await points of one call.                  *)
(***************************************************************************)
EXTENDS Integers, Sequences, FiniteSets, TLC

VARIABLES
    compromisedModeActive,  \* bot.compromisedModeActive
    compromisedReason,      \* bot.compromisedReason
    compromisedInterval,    \* the interval started by startCompromisedInterval
    globalStandby,          \* the standby record written by engageGlobalStandby
    currentAccountEmail,    \* bot.currentAccountEmail
    alerts,                 \* alerts dispatched in the current episode, per account
    episode,                \* number of resets so far
    reports,                \* confirmed incidents reported in the current episode
    incidentAccounts,       \* accounts of the incidents reported in the current episode
    wk,                     \* per worker: the position and locals of its call
    session,                \* the createBrowser call
    humanizer               \* the Humanizer.actionPause call

vars == <<compromisedModeActive, compromisedReason, compromisedInterval, globalStandby,
          currentAccountEmail, alerts, episode, reports, incidentAccounts, wk, session,
          humanizer>>

coordVars == <<compromisedModeActive, compromisedReason, compromisedInterval,
               globalStandby, alerts, reports, incidentAccounts>>

detectorVars == <<compromisedModeActive, compromisedReason, compromisedInterval, globalStandby,
                  currentAccountEmail, alerts, episode, reports, incidentAccounts, wk>>

-----------------------------------------------------------------------------
(* Bounds *)

\* Number of operator resets explored.
MaxEpisode == 1

\* Program constants
NumSelectors == 4
MaxHeadingLen == 300

Workers == {"w1", "w2"}

\* "" stands for an unset currentAccountEmail.
NoEmail == ""
AccountEmails == {"a@x", "b@x"}
Emails == AccountEmails \cup {NoEmail}
Accounts == {"a@x", "b@x", "unknown"}

\* const email = this.bot.currentAccountEmail || 'unknown'
EmailOrUnknown(e) == IF e = NoEmail THEN "unknown" ELSE e

SignInBlocked == "sign-in-blocked"
NoReason == ""

-----------------------------------------------------------------------------
(* Page text.  A heading is a sequence of tokens; consecutive tokens are    *)
(* separated by one space.  The token WS is surplus white space.            *)

WS == "  "
LongFiller == "<300 characters of other text>"

\* String.prototype.toLowerCase on one token.
ToLowerTok(t) ==
    CASE t = "We" -> "we"
      [] t = "Sign You In" -> "sign you in"
      [] t = "Your Account Has Been Locked" -> "your account has been locked"
      [] OTHER -> t

\* String.prototype.length of one token.
TokLen(t) ==
    CASE t \in {"we", "We", WS} -> 2
      [] t \in {"cant"} -> 4
      [] t \in {"can't", "can{U+0060}t", "can{U+2019}t", "can-t"} -> 5
      [] t \in {"used an"} -> 7
      [] t \in {"right now"} -> 9
      [] t \in {"sign you in", "Sign You In"} -> 11
      [] t \in {"sign-in has been blocked"} -> 24
      [] t \in {"your account has been locked", "Your Account Has Been Locked"} -> 28
      [] t \in {"incorrect account or password too many times"} -> 44
      [] t = LongFiller -> 300
      [] OTHER -> 1

RECURSIVE StrLen(_)
StrLen(s) ==
    IF s = <<>> THEN 0
    ELSE IF Len(s) = 1 THEN TokLen(s[1])
    ELSE TokLen(s[1]) + 1 + StrLen(Tail(s))

RECURSIVE TrimLeft(_)
TrimLeft(s) == IF s # <<>> /\ s[1] = WS THEN TrimLeft(Tail(s)) ELSE s

RECURSIVE TrimRight(_)
TrimRight(s) ==
    IF s # <<>> /\ s[Len(s)] = WS THEN TrimRight(SubSeq(s, 1, Len(s) - 1)) ELSE s

\* String.prototype.trim
Trim(s) == TrimRight(TrimLeft(s))

\* String.prototype.toLowerCase
ToLowerCase(s) == [i \in 1..Len(s) |-> ToLowerTok(s[i])]

-----------------------------------------------------------------------------
(* The rule table.  A pattern is a sequence of token classes; it matches a  *)
(* text when the classes match consecutive tokens somewhere in the text,    *)
(* compared case-insensitively (the /i flag).                               *)

Apostrophes == {"can't", "can{U+2019}t", "can{U+0060}t", "cant"}

SIGN_IN_BLOCK_PATTERNS ==
    << [re |-> << {"we"}, Apostrophes, {"sign you in"} >>, label |-> "cant-sign-in"],
       [re |-> << {"incorrect account or password too many times"} >>,
        label |-> "too-many-incorrect"],
       [re |-> << {"used an"}, {"incorrect account or password too many times"} >>,
        label |-> "too-many-incorrect-variant"],
       [re |-> << {"sign-in has been blocked"} >>, label |-> "sign-in-blocked-phrase"],
       [re |-> << {"your account has been locked"} >>, label |-> "account-locked"] >>

NoMatch == "null"

\* RegExp.prototype.test
Test(re, s) ==
    \E i \in 1..Len(s) :
        /\ i + Len(re) - 1 <= Len(s)
        /\ \A k \in 1..Len(re) : ToLowerTok(s[i + k - 1]) \in re[k]

\* for (const p of SIGN_IN_BLOCK_PATTERNS) { if (p.re.test(lower)) { matched = p.label; break } }
RECURSIVE ClassifyFrom(_, _)
ClassifyFrom(lower, i) ==
    IF i > Len(SIGN_IN_BLOCK_PATTERNS) THEN NoMatch
    ELSE IF Test(SIGN_IN_BLOCK_PATTERNS[i].re, lower) THEN SIGN_IN_BLOCK_PATTERNS[i].label
    ELSE ClassifyFrom(lower, i + 1)

\* The rule loop without its break: the last matching rule wins.
RECURSIVE ClassifyNoBreak(_, _, _)
ClassifyNoBreak(lower, i, matched) ==
    IF i > Len(SIGN_IN_BLOCK_PATTERNS) THEN matched
    ELSE ClassifyNoBreak(lower, i + 1,
             IF Test(SIGN_IN_BLOCK_PATTERNS[i].re, lower)
             THEN SIGN_IN_BLOCK_PATTERNS[i].label ELSE matched)

Classify_LastMatch(text) == ClassifyNoBreak(ToLowerCase(text), 1, NoMatch)

\* const lower = text.toLowerCase(); let matched = null; for (...) ...
Classify(text) == ClassifyFrom(ToLowerCase(text), 1)

\* const t = (await el.textContent() || '').trim(); if (t && t.length < 300) text += ' ' + t
Aggregate(text, content) ==
    LET t == Trim(content)
    IN  IF t # <<>> /\ StrLen(t) < MaxHeadingLen THEN text \o t ELSE text

-----------------------------------------------------------------------------
(* Coordinator state as the specification names it, read off the bot flags. *)

NoStandby == [active |-> FALSE, reason |-> NoReason, account |-> "unknown"]

State ==
    IF globalStandby.active THEN "GlobalStandby"
    ELSE IF compromisedModeActive THEN "Compromised"
    ELSE "Normal"

Rank(st) == CASE st = "Normal" -> 0 [] st = "Compromised" -> 1 [] OTHER -> 2

\* bot.engageGlobalStandby(reason, email): the escalating report of the coordinator
engageGlobalStandby(reason, email) == [active |-> TRUE, reason |-> reason, account |-> email]

\* securityUtils.sendIncidentAlert(incident, 'warn'): one more alert out for the account
sendIncidentAlert(sent, account) == [sent EXCEPT ![account] = @ + 1]

\* The dispatcher answers success or failure and never throws past its boundary.
SendOutcomes == {"success", "failure"}

\* coordinator.isSafeToProceed(account); haltFleet is the policy for the incident kind
isSafeToProceed(account, haltFleet) ==
    \/ State = "Normal"
    \/ State = "Compromised" /\ account \notin incidentAccounts /\ ~haltFleet

-----------------------------------------------------------------------------
(* Workers *)

Fresh(pc) ==
    [pc |-> pc, sel |-> 0, text |-> <<>>, matched |-> NoMatch, email |-> "unknown",
     caller |-> "unknown", ret |-> "none", fast |-> FALSE, threw |-> FALSE,
     alertFailed |-> FALSE, engaged |-> FALSE, locked |-> "none", ep |-> -1]

\* What one heading probe can come to.
Missing == [kind |-> "null"]                 \* waitForSelector rejected: .catch(() => null)
Detached == [kind |-> "throw"]               \* element found, textContent() rejects
NoContent == [kind |-> "text", t |-> <<>>]   \* textContent() is null or ''
Found(t) == [kind |-> "text", t |-> t]

BlockedHeading == <<"We", "can't", "sign you in">>

ProbeOutcomes == {Missing, Detached, Found(BlockedHeading)}

\* Headings the classification is explored on.
HeadingPool ==
    { <<"We", "can't", "sign you in", "right now">>,
      <<"we", "can{U+2019}t", "sign you in">>,
      <<"we", "cant", "Sign You In">>,
      <<"we", "can-t", "sign you in">>,
      <<"we", WS, "can't", "sign you in">>,
      <<"we">>,
      <<"can{U+0060}t", "sign you in">>,
      <<"used an">>,
      <<"used an", "incorrect account or password too many times">>,
      <<"incorrect account or password too many times">>,
      <<"sign-in has been blocked">>,
      <<WS, "Your Account Has Been Locked", WS>>,
      <<"your account has been locked", LongFiller>>,
      <<LongFiller>>,
      <<WS>>,
      <<"right now">> }

RichProbeOutcomes == {Missing, Detached, NoContent} \cup {Found(h) : h \in HeadingPool}

\* createBrowser before it is called.
NoSession ==
    [pc |-> "start", email |-> NoEmail, stopOnCritical |-> "undefined", saved |-> FALSE,
     validated |-> FALSE, logged |-> FALSE, validationResult |-> [valid |-> TRUE, criticalIssues |-> {}],
     contextRequested |-> FALSE, error |-> "none"]

\* actionPause before it is called.
NoValue == [kind |-> "number", n |-> 0, s |-> ""]
NoConfig ==
    [present |-> FALSE, enabled |-> "undefined", hasDelay |-> FALSE,
     min |-> NoValue, max |-> NoValue]
NoPause == [pc |-> "idle", cfg |-> NoConfig, min |-> 0, max |-> 0, waited |-> FALSE]

Init ==
    /\ compromisedModeActive = FALSE
    /\ compromisedReason = NoReason
    /\ compromisedInterval = FALSE
    /\ globalStandby = NoStandby
    /\ currentAccountEmail = NoEmail
    /\ alerts = [a \in Accounts |-> 0]
    /\ episode = 0
    /\ reports = 0
    /\ incidentAccounts = {}
    /\ wk = [w \in Workers |-> Fresh("idle")]
    /\ session = NoSession
    /\ humanizer = NoPause

\* The account loop assigns bot.currentAccountEmail.
SetCurrentAccount(a) ==
    /\ a # currentAccountEmail
    /\ currentAccountEmail' = a
    /\ UNCHANGED <<coordVars, episode, wk, session, humanizer>>

\* A worker starts an authentication attempt at a checkpoint.
StartAttempt(w, haltFleet) ==
    /\ wk[w].pc = "idle"
    /\ isSafeToProceed(EmailOrUnknown(currentAccountEmail), haltFleet)
    /\ wk' = [wk EXCEPT ![w] = Fresh("login")]
    /\ UNCHANGED <<coordVars, currentAccountEmail, episode, session, humanizer>>

EndAttempt(w) ==
    /\ wk[w].pc = "login"
    /\ wk' = [wk EXCEPT ![w] = Fresh("idle")]
    /\ UNCHANGED <<coordVars, currentAccountEmail, episode, session, humanizer>>

\* DetectEnter with a fast path that also asks for the caller's own account.
DetectEnter_OwnAccount(w) ==
    /\ wk[w].pc = "login"
    /\ IF /\ compromisedModeActive /\ compromisedReason = SignInBlocked
          /\ EmailOrUnknown(currentAccountEmail) \in incidentAccounts
       THEN wk' = [wk EXCEPT ![w] = [Fresh("done") EXCEPT
                        !.ret = "true", !.fast = TRUE, !.ep = episode,
                        !.caller = EmailOrUnknown(currentAccountEmail)]]
       ELSE wk' = [wk EXCEPT ![w] = [Fresh("probe") EXCEPT !.sel = 1]]
    /\ UNCHANGED <<coordVars, currentAccountEmail, episode, session, humanizer>>

\* detectSignInBlocked, line 25 and the call of the first probe
DetectEnter(w) ==
    /\ wk[w].pc = "login"
    /\ IF compromisedModeActive /\ compromisedReason = SignInBlocked
       THEN wk' = [wk EXCEPT ![w] = [Fresh("done") EXCEPT
                        !.ret = "true", !.fast = TRUE, !.ep = episode,
                        !.caller = EmailOrUnknown(currentAccountEmail)]]
       ELSE wk' = [wk EXCEPT ![w] = [Fresh("probe") EXCEPT !.sel = 1]]
    /\ UNCHANGED <<coordVars, currentAccountEmail, episode, session, humanizer>>

\* One turn of the probe loop (lines 29-33); after the last selector, lines 35-48
\* up to the call of sendIncidentAlert.
DetectProbe(w, o) ==
    /\ wk[w].pc = "probe"
    /\ IF o.kind = "throw"
       THEN /\ wk' = [wk EXCEPT ![w].pc = "done", ![w].ret = "false", ![w].threw = TRUE]
            /\ UNCHANGED alerts
       ELSE LET text == IF o.kind = "text" THEN Aggregate(wk[w].text, o.t) ELSE wk[w].text
                matched == Classify(text)
                email == EmailOrUnknown(currentAccountEmail)
            IN  IF wk[w].sel < NumSelectors
                THEN /\ wk' = [wk EXCEPT ![w].text = text, ![w].sel = @ + 1]
                     /\ UNCHANGED alerts
                ELSE IF matched = NoMatch
                THEN /\ wk' = [wk EXCEPT ![w].text = text, ![w].pc = "done",
                                         ![w].ret = "false"]
                     /\ UNCHANGED alerts
                ELSE /\ wk' = [wk EXCEPT ![w].text = text, ![w].matched = matched,
                                         ![w].email = email, ![w].pc = "alert"]
                     /\ alerts' = sendIncidentAlert(alerts, email)
    /\ UNCHANGED <<compromisedModeActive, compromisedReason, compromisedInterval,
                   globalStandby, reports, incidentAccounts, currentAccountEmail,
                   episode, session, humanizer>>

\* DetectReport writing the state last-writer-wins: Compromised, whatever it was.
DetectReport_LastWriterWins(w, outcome, sync) ==
    /\ wk[w].pc = "alert"
    /\ compromisedModeActive' = TRUE
    /\ compromisedReason' = SignInBlocked
    /\ compromisedInterval' = TRUE
    /\ reports' = reports + 1
    /\ incidentAccounts' = incidentAccounts \cup {wk[w].email}
    /\ globalStandby' = IF sync THEN engageGlobalStandby(SignInBlocked, wk[w].email)
                        ELSE NoStandby
    /\ wk' = [wk EXCEPT ![w].pc = "engage", ![w].alertFailed = (outcome = "failure"),
                        ![w].engaged = sync, ![w].ep = episode]
    /\ UNCHANGED <<alerts, currentAccountEmail, episode, session, humanizer>>

\* DetectReport giving up when the alert was not delivered.
DetectReport_AbortOnFailure(w, outcome, sync) ==
    /\ wk[w].pc = "alert"
    /\ IF outcome = "failure"
       THEN /\ wk' = [wk EXCEPT ![w].pc = "done", ![w].ret = "false",
                                ![w].alertFailed = TRUE]
            /\ UNCHANGED <<compromisedModeActive, compromisedReason, compromisedInterval,
                           reports, incidentAccounts, globalStandby>>
       ELSE /\ compromisedModeActive' = TRUE
            /\ compromisedReason' = SignInBlocked
            /\ compromisedInterval' = TRUE
            /\ reports' = reports + 1
            /\ incidentAccounts' = incidentAccounts \cup {wk[w].email}
            /\ globalStandby' = IF sync THEN engageGlobalStandby(SignInBlocked, wk[w].email)
                                ELSE globalStandby
            /\ wk' = [wk EXCEPT ![w].pc = "engage", ![w].engaged = sync,
                                ![w].ep = episode]
    /\ UNCHANGED <<alerts, currentAccountEmail, episode, session, humanizer>>

\* The alert send settles (delivered or not); lines 49-52 up to the await.  The
\* standby engagement takes effect either at once (sync) or when its promise settles.
DetectReport(w, outcome, sync) ==
    /\ wk[w].pc = "alert"
    /\ compromisedModeActive' = TRUE
    /\ compromisedReason' = SignInBlocked
    /\ compromisedInterval' = TRUE
    /\ reports' = reports + 1
    /\ incidentAccounts' = incidentAccounts \cup {wk[w].email}
    /\ globalStandby' = IF sync THEN engageGlobalStandby(SignInBlocked, wk[w].email)
                        ELSE globalStandby
    /\ wk' = [wk EXCEPT ![w].pc = "engage", ![w].alertFailed = (outcome = "failure"),
                        ![w].engaged = sync, ![w].ep = episode]
    /\ UNCHANGED <<alerts, currentAccountEmail, episode, session, humanizer>>

\* DetectEngaged leaving the state alone when the engagement was rejected.
DetectEngaged_SkipOnReject(w, rejected) ==
    /\ wk[w].pc = "engage"
    /\ globalStandby' = IF wk[w].engaged \/ rejected THEN globalStandby
                        ELSE engageGlobalStandby(SignInBlocked, wk[w].email)
    /\ wk' = [wk EXCEPT ![w].pc = "docs", ![w].engaged = TRUE]
    /\ UNCHANGED <<compromisedModeActive, compromisedReason, compromisedInterval, alerts,
                   reports, incidentAccounts, currentAccountEmail, episode, session, humanizer>>

\* The standby engagement settles (line 52, a rejection is logged); line 54 is called.
DetectEngaged(w, rejected) ==
    /\ wk[w].pc = "engage"
    /\ globalStandby' = IF wk[w].engaged THEN globalStandby
                        ELSE engageGlobalStandby(SignInBlocked, wk[w].email)
    /\ wk' = [wk EXCEPT ![w].pc = "docs", ![w].engaged = TRUE]
    /\ UNCHANGED <<compromisedModeActive, compromisedReason, compromisedInterval, alerts,
                   reports, incidentAccounts, currentAccountEmail, episode, session, humanizer>>

\* openDocsTab settles (line 54, a rejection is logged); return true.
DetectDocsDone(w, rejected) ==
    /\ wk[w].pc = "docs"
    /\ wk' = [wk EXCEPT ![w].pc = "done", ![w].ret = "true"]
    /\ UNCHANGED <<coordVars, currentAccountEmail, episode, session, humanizer>>

\* The caller takes the boolean and goes on with the attempt.
DetectReturn(w) ==
    /\ wk[w].pc = "done"
    /\ wk' = [wk EXCEPT ![w] = Fresh("login")]
    /\ UNCHANGED <<coordVars, currentAccountEmail, episode, session, humanizer>>

\* checkAccountLocked: the call of waitForSelector (line 60)
CheckAccountLocked(w) ==
    /\ wk[w].pc = "login"
    /\ wk' = [wk EXCEPT ![w] = Fresh("lockprobe")]
    /\ UNCHANGED <<coordVars, currentAccountEmail, episode, session, humanizer>>

\* CheckLockedDone treating the hard lock as one more incident.
CheckLockedDone_Reports(w, present) ==
    /\ wk[w].pc = "lockprobe"
    /\ wk' = [wk EXCEPT ![w].locked = IF present THEN "present" ELSE "absent",
                        ![w].pc = IF present THEN "fatal" ELSE "unlocked"]
    /\ compromisedModeActive' = (compromisedModeActive \/ present)
    /\ compromisedReason' = IF present THEN "account-locked" ELSE compromisedReason
    /\ UNCHANGED <<compromisedInterval, globalStandby, alerts, reports, incidentAccounts,
                   currentAccountEmail, episode, session, humanizer>>

\* lines 60-64: the probe settles; the element is present or the wait rejected
CheckLockedDone(w, present) ==
    /\ wk[w].pc = "lockprobe"
    /\ wk' = [wk EXCEPT ![w].locked = IF present THEN "present" ELSE "absent",
                        ![w].pc = IF present THEN "fatal" ELSE "unlocked"]
    /\ UNCHANGED <<coordVars, currentAccountEmail, episode, session, humanizer>>

\* The caller goes on after a check that did not raise.
CheckLockedReturn(w) ==
    /\ wk[w].pc = "unlocked"
    /\ wk' = [wk EXCEPT ![w] = Fresh("login")]
    /\ UNCHANGED <<coordVars, currentAccountEmail, episode, session, humanizer>>

\* The fatal error ends this account's run.
FatalExit(w) ==
    /\ wk[w].pc = "fatal"
    /\ wk' = [wk EXCEPT ![w] = Fresh("idle")]
    /\ UNCHANGED <<coordVars, currentAccountEmail, episode, session, humanizer>>

\* coordinator.reset(): the operator returns the fleet to Normal
Reset ==
    /\ episode < MaxEpisode
    /\ State # "Normal"
    /\ compromisedModeActive' = FALSE
    /\ compromisedReason' = NoReason
    /\ compromisedInterval' = FALSE
    /\ globalStandby' = NoStandby
    /\ alerts' = [a \in Accounts |-> 0]
    /\ reports' = 0
    /\ incidentAccounts' = {}
    /\ episode' = episode + 1
    /\ UNCHANGED <<currentAccountEmail, wk, session, humanizer>>

Next ==
    \/ \E a \in AccountEmails : SetCurrentAccount(a)
    \/ \E w \in Workers, h \in BOOLEAN : StartAttempt(w, h)
    \/ \E w \in Workers : EndAttempt(w)
    \/ \E w \in Workers : DetectEnter(w)
    \/ \E w \in Workers, o \in ProbeOutcomes : DetectProbe(w, o)
    \/ \E w \in Workers, d \in SendOutcomes, s \in BOOLEAN : DetectReport(w, d, s)
    \/ \E w \in Workers, r \in BOOLEAN : DetectEngaged(w, r)
    \/ \E w \in Workers, r \in BOOLEAN : DetectDocsDone(w, r)
    \/ \E w \in Workers : DetectReturn(w)
    \/ \E w \in Workers : CheckAccountLocked(w)
    \/ \E w \in Workers, p \in BOOLEAN : CheckLockedDone(w, p)
    \/ \E w \in Workers : CheckLockedReturn(w)
    \/ \E w \in Workers : FatalExit(w)
    \/ Reset

Spec == Init /\ [][Next]_vars

-----------------------------------------------------------------------------
(* Properties *)

\* The call of worker w reported an incident in the running episode.
Reported(w) == wk[w].pc \in {"engage", "docs", "done"} /\ ~wk[w].fast /\ wk[w].ep = episode

\* C1: under every interleaving of reports the coordinator state only moves forward
\* (Normal < Compromised < GlobalStandby) as long as nobody resets it, and when two
\* workers with different accounts have both reported and returned, the state is
\* GlobalStandby.
C1_MonotonicEscalation ==
    /\ [][episode' = episode => Rank(State') >= Rank(State)]_vars
    /\ [](\A v, w \in Workers :
            (/\ v # w
             /\ Reported(v) /\ wk[v].pc = "done"
             /\ Reported(w) /\ wk[w].pc = "done"
             /\ wk[v].email # wk[w].email) => State = "GlobalStandby")

C1_Witness ==
    \E v, w \in Workers :
        /\ v # w
        /\ Reported(v) /\ wk[v].pc = "done"
        /\ Reported(w) /\ wk[w].pc = "done"
        /\ wk[v].email # wk[w].email

C3_StandbyLatch ==
    [][(State = "GlobalStandby" /\ episode' = episode) =>
          /\ State' = "GlobalStandby"
          /\ \A a \in Accounts, h \in BOOLEAN : ~isSafeToProceed(a, h)
          /\ \A a \in Accounts, h \in BOOLEAN : ~isSafeToProceed(a, h)'
          /\ \A w \in Workers : wk[w].pc = "idle" => wk'[w].pc = "idle"]_vars

C3_Witness ==
    /\ State = "GlobalStandby"
    /\ EmailOrUnknown(currentAccountEmail) \notin incidentAccounts
    /\ \E w \in Workers : wk[w].pc = "idle"
    /\ \E w \in Workers : wk[w].pc = "done" /\ wk[w].fast

\* C4: within one episode at most one alert is dispatched per (incident kind, account),
\* also when detect() calls overlap.
C4_AtMostOneAlert == \A a \in Accounts : alerts[a] <= 1

\* C5: when the pattern matched and the alert dispatch failed, the incident is still
\* reported (the state has left Normal unless it was reset since) and detect() returns
\* true.
C5_DispatchFailureDoesNotAbort ==
    \A w \in Workers :
        wk[w].alertFailed =>
            /\ wk[w].pc \in {"engage", "docs", "done"}
            /\ wk[w].pc = "done" => wk[w].ret = "true"
            /\ wk[w].ep = episode => State # "Normal"

C5_Witness ==
    \E w \in Workers :
        wk[w].alertFailed /\ wk[w].pc = "done" /\ wk[w].ret = "true" /\ State # "Normal"

\* C6: detect() ends with a boolean, and a failing probe is a non-match for that probe
\* only: a call returns false only if the text of its other probes matches no rule.
C6_ProbeFailureIsLocal ==
    \A w \in Workers :
        wk[w].pc = "done" =>
            /\ wk[w].ret \in {"true", "false"}
            /\ wk[w].ret = "false" => Classify(wk[w].text) = NoMatch

\* C7: checkAccountLocked raises exactly when the hard-lock element is present, and the
\* call changes no coordinator state, reports no incident and dispatches no alert.
C7_CheckAccountLockedFrame ==
    [][\A w \in Workers :
          /\ (wk[w].pc = "login" /\ wk'[w].pc = "lockprobe") => UNCHANGED coordVars
          /\ (wk[w].pc = "lockprobe" /\ wk'[w].pc # "lockprobe") =>
                /\ UNCHANGED coordVars
                /\ wk'[w].pc \in {"fatal", "unlocked"}
                /\ (wk'[w].pc = "fatal") <=> (wk'[w].locked = "present")]_vars

C7_Witness ==
    /\ \E w \in Workers : wk[w].pc = "fatal" /\ wk[w].locked = "present"
    /\ \E w \in Workers : wk[w].pc = "unlocked" /\ wk[w].locked = "absent"
    /\ State = "Normal"

\* C10 as stated: a call that takes the fast path is made for an account whose own
\* incident the coordinator holds.
C10_FastPathOwnAccount ==
    \A w \in Workers :
        (wk[w].fast /\ wk[w].ep = episode) => wk[w].caller \in incidentAccounts

\* C10 as amended: detect() takes the fast path (true, no probe, no alert, no state
\* change) exactly when compromisedModeActive is set with the reason sign-in-blocked at
\* the call, whichever account's incident set them.
C10_FastPathOnFlags ==
    [][\A w \in Workers :
          (wk[w].pc = "login" /\ wk'[w].pc \in {"probe", "done"}) =>
              /\ wk'[w].fast <=> (compromisedModeActive /\ compromisedReason = SignInBlocked)
              /\ wk'[w].fast <=> wk'[w].pc = "done"
              /\ wk'[w].fast => wk'[w].ret = "true" /\ wk'[w].sel = 0
              /\ UNCHANGED coordVars]_vars

C10_Witness ==
    \E w \in Workers :
        /\ wk[w].fast /\ wk[w].ep = episode /\ wk[w].ret = "true"
        /\ wk[w].caller \notin incidentAccounts

-----------------------------------------------------------------------------
(* Classification on its own: one worker, pages drawn from HeadingPool. *)

InitClassify == Init

NextClassify ==
    \/ \E h \in BOOLEAN : StartAttempt("w1", h)
    \/ DetectEnter("w1")
    \/ \E o \in RichProbeOutcomes : DetectProbe("w1", o)
    \/ \E d \in SendOutcomes, s \in BOOLEAN : DetectReport("w1", d, s)
    \/ \E r \in BOOLEAN : DetectEngaged("w1", r)
    \/ \E r \in BOOLEAN : DetectDocsDone("w1", r)
    \/ DetectReturn("w1")

SpecClassify == InitClassify /\ [][NextClassify]_vars

-----------------------------------------------------------------------------
(* Session creation: Browser.createBrowser *)

\* config.riskManagement?.stopOnCritical
StopSettings == {"undefined", "false", "true"}
Truthy(x) == x = "true"

CriticalIssues == {"mobile/viewport mismatch", "platform mismatch"}

\* What validateFingerprintConsistency can return: valid iff no critical issue.
ValidationResults ==
    {[valid |-> (c = {}), criticalIssues |-> c] : c \in SUBSET CriticalIssues}

\* DoValidate aborting on every invalid result, whatever stopOnCritical says.
DoValidate_AlwaysStop(ses, result) ==
    LET checked == [ses EXCEPT !.validated = TRUE, !.logged = TRUE,
                               !.validationResult = result]
    IN  IF ~result.valid
        THEN [checked EXCEPT !.pc = "failed", !.error = "fingerprint"]
        ELSE [checked EXCEPT !.pc = "context", !.contextRequested = TRUE]

\* Lines 104-113: validate, log, abort on a critical result if stopOnCritical is set,
\* else call newInjectedContext.
DoValidate(ses, result) ==
    LET checked == [ses EXCEPT !.validated = TRUE, !.logged = TRUE,
                               !.validationResult = result]
    IN  IF ~result.valid /\ Truthy(ses.stopOnCritical)
        THEN [checked EXCEPT !.pc = "failed", !.error = "fingerprint"]
        ELSE [checked EXCEPT !.pc = "context", !.contextRequested = TRUE]

\* createBrowser(proxy, email) up to the await of chromium.launch (lines 18-86)
CreateBrowser(email, stop) ==
    /\ session.pc = "start"
    /\ session' = [NoSession EXCEPT !.pc = "launching", !.email = email,
                                    !.stopOnCritical = stop]
    /\ UNCHANGED <<detectorVars, humanizer>>

\* The launch settles: a failure is logged and rethrown (lines 87-95); else
\* loadSessionData is called (line 101).
LaunchDone(ok) ==
    /\ session.pc = "launching"
    /\ session' = IF ok THEN [session EXCEPT !.pc = "loading"]
                  ELSE [session EXCEPT !.pc = "failed", !.error = "launch"]
    /\ UNCHANGED <<detectorVars, humanizer>>

\* loadSessionData settles (line 101); a saved fingerprint is validated at once, else
\* generateFingerprint is awaited (line 102).
SessionLoaded(saved, result) ==
    /\ session.pc = "loading"
    /\ session' = IF saved THEN DoValidate([session EXCEPT !.saved = TRUE], result)
                  ELSE [session EXCEPT !.pc = "generating"]
    /\ UNCHANGED <<detectorVars, humanizer>>

\* generateFingerprint settles (line 102); lines 104-113
FingerprintGenerated(result) ==
    /\ session.pc = "generating"
    /\ session' = DoValidate(session, result)
    /\ UNCHANGED <<detectorVars, humanizer>>

\* newInjectedContext settles (line 113); the rest of createBrowser returns the context
ContextDone(ok) ==
    /\ session.pc = "context"
    /\ session' = IF ok THEN [session EXCEPT !.pc = "ready"]
                  ELSE [session EXCEPT !.pc = "failed", !.error = "context"]
    /\ UNCHANGED <<detectorVars, humanizer>>

\* The caller is through with this call; the next session may be created.
SessionOver ==
    /\ session.pc \in {"ready", "failed"}
    /\ session' = NoSession
    /\ UNCHANGED <<detectorVars, humanizer>>

NextBrowser ==
    \/ \E e \in Emails \ {NoEmail}, stop \in StopSettings : CreateBrowser(e, stop)
    \/ \E ok \in BOOLEAN : LaunchDone(ok)
    \/ \E saved \in BOOLEAN, r \in ValidationResults : SessionLoaded(saved, r)
    \/ \E r \in ValidationResults : FingerprintGenerated(r)
    \/ \E ok \in BOOLEAN : ContextDone(ok)
    \/ SessionOver

InitBrowser == Init

SpecBrowser == InitBrowser /\ [][NextBrowser]_vars

-----------------------------------------------------------------------------
(* Properties of classification and of session creation *)

\* The rules whose pattern matches the lowercase text.
MatchingRules(text) ==
    {i \in 1..Len(SIGN_IN_BLOCK_PATTERNS) :
        Test(SIGN_IN_BLOCK_PATTERNS[i].re, ToLowerCase(text))}

\* C8: the label a call settles on is that of the rule with the smallest table index
\* among the rules matching the aggregated text; when no rule matches there is none and
\* detect() returns false.
C8_FirstRuleWins ==
    \A w \in Workers :
        (wk[w].pc \in {"alert", "engage", "docs", "done"} /\ ~wk[w].fast /\ ~wk[w].threw) =>
            LET m == MatchingRules(wk[w].text)
            IN  /\ m = {} => wk[w].matched = NoMatch /\ wk[w].pc = "done" /\ wk[w].ret = "false"
                /\ m # {} => /\ \E i \in m :
                                  /\ \A j \in m : i <= j
                                  /\ wk[w].matched = SIGN_IN_BLOCK_PATTERNS[i].label
                             /\ wk[w].ret # "false"

C8_Witness ==
    \E w \in Workers :
        /\ wk[w].pc = "alert"
        /\ Cardinality(MatchingRules(wk[w].text)) >= 2
        /\ 1 \notin MatchingRules(wk[w].text)
        /\ wk[w].matched = "too-many-incorrect"

\* C9: once the fingerprint has been validated, session creation fails with the
\* fingerprint error, before the context is asked for, exactly when the result is
\* invalid and stopOnCritical is set; in every other case the validation has run and
\* been logged and the context is asked for.
C9_FingerprintGate ==
    /\ session.error = "fingerprint" <=>
          /\ session.validated
          /\ ~session.validationResult.valid
          /\ Truthy(session.stopOnCritical)
    /\ session.error = "fingerprint" => ~session.contextRequested /\ session.pc = "failed"
    /\ session.contextRequested <=>
          /\ session.validated
          /\ session.validationResult.valid \/ ~Truthy(session.stopOnCritical)
    /\ session.contextRequested => session.logged /\ session.pc \in {"context", "ready", "failed"}
    /\ session.validationResult.valid <=> session.validationResult.criticalIssues = {}

C9_Witness ==
    /\ session.error = "fingerprint"
    /\ session.validationResult.criticalIssues # {}
    /\ ~session.contextRequested

-----------------------------------------------------------------------------
(* Properties of the order of effects and of the rule table *)

\* C11: on a confirmed match the state transition does not wait on the alert: while a
\* call's alert send is still outstanding, the state has already left Normal.
C11_ReportDoesNotWaitOnAlert ==
    \A w \in Workers : wk[w].pc = "alert" => State # "Normal"

\* C12: the return value of detect() agrees with its effects.  A call that returns true
\* leaves the coordinator Compromised or GlobalStandby with a reason set (unless it was
\* reset since); a call that returns false has dispatched no alert and reported nothing,
\* and the step that returns false changes no coordinator state.
C12_ReturnAgreesWithEffects ==
    /\ [](\A w \in Workers :
            wk[w].pc = "done" =>
                /\ (wk[w].ret = "true" /\ wk[w].ep = episode) =>
                      /\ State \in {"Compromised", "GlobalStandby"}
                      /\ compromisedModeActive
                      /\ compromisedReason # NoReason
                /\ wk[w].ret = "false" =>
                      /\ wk[w].matched = NoMatch
                      /\ wk[w].ep = -1
                      /\ ~wk[w].alertFailed)
    /\ [][\A w \in Workers :
            (wk[w].ret # "false" /\ wk'[w].ret = "false") => UNCHANGED coordVars]_vars

C12_Witness ==
    /\ \E w \in Workers :
          wk[w].pc = "done" /\ wk[w].ret = "true" /\ ~wk[w].fast /\ wk[w].ep = episode
    /\ \E w \in Workers :
          wk[w].pc = "done" /\ wk[w].ret = "false" /\ wk[w].threw

\* Texts aggregated from at most two headings of the pool.
CandidateTexts ==
    {Aggregate(Aggregate(<<>>, g), h) : g, h \in HeadingPool \cup {<<>>}}

\* C13: every rule of the table can win: for each rule some heading text (one of the
\* candidates, or one a call has aggregated) is classified with that rule's label.
C13_EveryRuleCanWin ==
    \A i \in 1..Len(SIGN_IN_BLOCK_PATTERNS) :
        \E t \in CandidateTexts \cup {wk[w].text : w \in Workers} :
            Classify(t) = SIGN_IN_BLOCK_PATTERNS[i].label

-----------------------------------------------------------------------------
(* Humanizer.actionPause *)

defMin == 150
defMax == 450
MaxParsedMs == 10000
MaxPauseMs == 5000

Number(n) == [kind |-> "number", n |-> n, s |-> ""]
String(str) == [kind |-> "string", n |-> 0, s |-> str]

\* Values an actionDelay bound is configured with.
DelayValues ==
    {Number(n) : n \in {-50, 0, 150, 5000, 6000, 7000}}
        \cup {String(str) : str \in {"200ms", "3s", "6s", "1 min", "-1s", "soon"}}

\* Strings util.stringToMs takes for a duration; on any other it throws.
Durations == {"200ms", "3s", "6s", "1 min", "-1s"}

\* util.stringToMs: a duration string in milliseconds
stringToMs(str) ==
    CASE str = "200ms" -> 200
      [] str = "3s" -> 3000
      [] str = "6s" -> 6000
      [] str = "1 min" -> 60000
      [] str = "-1s" -> -1000

Min(a, b) == IF a < b THEN a ELSE b
Max(a, b) == IF a > b THEN a ELSE b

\* const parse = (v) => ...   (lines 44-53)
parse(v) ==
    IF v.kind = "number" THEN v.n
    ELSE IF v.s \notin Durations THEN defMin
    ELSE Max(0, Min(stringToMs(v.s), MaxParsedMs))

\* The configurations of the humanizer: none, or enabled / actionDelay set or not.
HumanizerConfigs ==
    {NoConfig}
        \cup {[present |-> TRUE, enabled |-> e, hasDelay |-> FALSE, min |-> NoValue,
               max |-> NoValue] : e \in {"undefined", "true", "false"}}
        \cup {[present |-> TRUE, enabled |-> e, hasDelay |-> TRUE, min |-> lo, max |-> hi] :
                e \in {"undefined", "true", "false"}, lo \in DelayValues, hi \in DelayValues}

\* The range handed to util.randomNumber (lines 39-58).
PauseRange(cfg) ==
    IF cfg.present /\ cfg.hasDelay
    THEN LET lo == parse(cfg.min)
             hi == parse(cfg.max)
             min == IF lo > hi THEN hi ELSE lo
             max == IF lo > hi THEN lo ELSE hi
         IN  <<min, Min(max, MaxPauseMs)>>
    ELSE <<defMin, defMax>>

\* actionPause up to the await of util.wait (lines 37-59)
ActionPause(cfg) ==
    /\ humanizer.pc = "idle"
    /\ humanizer' =
          IF cfg.present /\ cfg.enabled = "false"
          THEN [NoPause EXCEPT !.pc = "returned", !.cfg = cfg]
          ELSE [NoPause EXCEPT !.pc = "waiting", !.cfg = cfg,
                               !.min = PauseRange(cfg)[1], !.max = PauseRange(cfg)[2]]
    /\ UNCHANGED <<detectorVars, session>>

\* util.wait settles (line 59)
WaitDone ==
    /\ humanizer.pc = "waiting"
    /\ humanizer' = [humanizer EXCEPT !.pc = "returned", !.waited = TRUE]
    /\ UNCHANGED <<detectorVars, session>>

\* The caller goes on.
PauseReturn ==
    /\ humanizer.pc = "returned"
    /\ humanizer' = NoPause
    /\ UNCHANGED <<detectorVars, session>>

NextHumanizer ==
    \/ \E cfg \in HumanizerConfigs : ActionPause(cfg)
    \/ WaitDone
    \/ PauseReturn

InitHumanizer == Init

SpecHumanizer == InitHumanizer /\ [][NextHumanizer]_vars

\* The configured bound is a number or a string that parses to a duration.
Parses(v) == v.kind = "number" \/ v.s \in Durations

\* C14: for every configured actionDelay whose min and max are numbers or strings that
\* parse, the wait is called with a range 0 <= min <= max <= 5000 ms; when humanization
\* is disabled there is no wait.
C14_PauseRangeBounded ==
    /\ (/\ humanizer.pc \in {"waiting", "returned"}
        /\ humanizer.cfg.present /\ humanizer.cfg.hasDelay
        /\ humanizer.cfg.enabled # "false"
        /\ Parses(humanizer.cfg.min) /\ Parses(humanizer.cfg.max)) =>
            /\ 0 <= humanizer.min
            /\ humanizer.min <= humanizer.max
            /\ humanizer.max <= MaxPauseMs
    /\ (humanizer.cfg.present /\ humanizer.cfg.enabled = "false") =>
            humanizer.pc # "waiting" /\ ~humanizer.waited

====
